---- MODULE Spec2Model ----
(***************************************************************************)
(* State-machine model of the sprites-js SDK's concurrency core:           *)
(*   - ControlPool / ControlConnection / OpConn   (src/src/control.ts)     *)
(*   - WSCommand command sessions                 (src/src/websocket.ts)   *)
(* Three specifications share the module: SpecPool (the connection pool    *)
(* and its callers), SpecCtl (one control connection and its OpConns) and  *)
(* SpecWS (one command session).                                           *)
(***************************************************************************)
EXTENDS Integers, Sequences, FiniteSets, TLC

VARIABLES
    \* ---- ControlPool (control.ts 449-575) and its callers
    conns,        \* ControlPool.conns: the roster, a sequence of connection ids
    waiters,      \* ControlPool.waiters: queued acquire() calls, oldest first
    poolClosed,   \* ControlPool.closed
    ccClosed,     \* set of connection ids whose ControlConnection.closed is true
    ccActive,     \* set of connection ids whose ControlConnection.poolActive is true
    nextConn,     \* number of ControlConnection objects constructed so far
    pc,           \* per caller: where its acquire()/release() cycle stands
    held,         \* per caller: the connection acquire() works on / returned (0: none)
    how,          \* per caller: the path by which its acquire() call settled
    queuedAtRelease, \* waiters.length as read by the latest release() call
    \* ---- one ControlConnection (control.ts 201-439) and the OpConns it created
    wsReady,      \* ControlConnection.ws: "NONE" (null) or the socket's readyState
    opActive,     \* ControlConnection.opActive
    opConn,       \* ControlConnection.opConn: index into ops, 0 for null
    closed,       \* ControlConnection.closed
    ops,          \* every OpConn constructed by startOp, in creation order
    startsSent,   \* number of op.start envelopes handed to ws.send
    startOpResult,\* outcome of the latest startOp call
    caught,       \* the latest handleMessage run ended in its catch block (305)
    dataTo,       \* the OpConn the step's handleMessage run handed its message to as
    sent,         \* what the last OpConn send call put on the transport
                  \* data (handleData/handleText); 0 if none, or no message in the step
    \* ---- one WSCommand command session (websocket.ts 20-383)
    sReady,       \* "UNBUILT" before the constructor ran, "NONE" while ws is null,
                  \* else the socket's readyState ("FAILED": after its error event)
    sTty,         \* WSCommand.tty
    initTty,      \* the tty argument the constructor was given
    isAttach,     \* WSCommand.isAttach
    started,      \* WSCommand.started
    done,         \* WSCommand.done
    exitCode,     \* WSCommand.exitCode
    sCloseError,  \* WSCommand.closeError is set
    startState,   \* the promise returned by start(): none/pending/resolved/rejected
    startError,   \* the message of the error start() rejected with ("none": not rejected)
    resolved,     \* the local flag `resolved` of start()
    infoWait,     \* waitForSessionInfo: off/waiting/gotInfo/resumed/timedOut/timedOutGotInfo
    pingOn,       \* WSCommand.pingInterval is armed
    ticks,        \* keepalive intervals elapsed since lastPongTime
    events,       \* the events the session has emitted, oldest first
    msgs,         \* inbound messages the socket has delivered so far
    dropped,      \* the last handleMessage run returned at data.length === 0
    waitState,    \* the promise WSCommand.wait() returned: none/pending/resolved
    \* ---- one execFile / execFileViaControl call (exec.ts 250-309)
    execVia,      \* "none" before the call; "session": over a SpriteCommand,
                  \* "control": over an OpConn of a pooled control connection
    execPromise,  \* the promise the call returned: none/pending/resolved/rejected
    execValue,    \* what it settled with
    stdoutChunks, \* stdoutChunks: the size of each chunk collected, oldest first
    stderrChunks, \* stderrChunks
    killed,       \* cmd.kill() / op.signal('KILL') was called
    execPos,      \* where the call stands: none/acquire/startOp/startFailed/
                  \* listening/returned/returnedNoConn
    released,     \* calls of releaseControlConnection made by the call
    \* ---- the frame codec of the non-TTY protocol (control.ts 62-133)
    wire,         \* the bytes of the frame last sent or received
    streamId,     \* handleData's local streamId, if wire is a frame received
    payload,      \* handleData's local payload, if wire is a frame received
    decoded       \* how handleData took wire: frame/empty (none: wire was sent)

poolVars == <<conns, waiters, poolClosed, ccClosed, ccActive, nextConn, pc, held, how,
              queuedAtRelease>>
wsVars == <<sReady, sTty, initTty, isAttach, started, done, exitCode, sCloseError,
            startState, startError, resolved, infoWait, pingOn, ticks, events, msgs,
            dropped, waitState>>
execVars == <<execVia, execPromise, execValue, stdoutChunks, stderrChunks, killed,
              execPos, released>>
frameVars == <<wire, streamId, payload, decoded>>
ctlVars == <<wsReady, opActive, opConn, closed, ops, startsSent,
             startOpResult, caught, dataTo, sent>>

(***************************************************************************)
(* Bounds of the pool model.                                               *)
(***************************************************************************)
MaxSize == 1          \* ControlPool.maxSize of the pool under test (N)
NumCallers == 4       \* concurrent callers of acquire() (M > N)
MaxConns == 2         \* ControlConnection objects constructed in one run

\* Pool configuration (control.ts 442-444)
POOL_DRAIN_THRESHOLD == 20
POOL_DRAIN_TARGET == 10

Callers == 1..NumCallers
ConnIds == 1..MaxConns
NoConn == 0

Min(S) == CHOOSE x \in S : \A y \in S : x <= y

(***************************************************************************)
(* ControlPool.acquire, synchronous part (control.ts 466-491).             *)
(***************************************************************************)
\* (mutant: the scan forgets the active flag)
AvailableIdxIgnoringActive(roster, closedSet, activeSet) ==
    {i \in DOMAIN roster : roster[i] \notin closedSet}

\* the roster positions acquire()'s scan accepts: !cc.isClosed() && !cc.isActive()
AvailableIdx(roster, closedSet, activeSet) ==
    {i \in DOMAIN roster : roster[i] \notin closedSet /\ roster[i] \notin activeSet}

\* the idle filter of tryDrain: !cc.isActive() && !cc.isClosed()
IdleIdx(roster, closedSet, activeSet) ==
    {i \in DOMAIN roster : roster[i] \notin activeSet /\ roster[i] \notin closedSet}

\* (mutant: waiters.pop() instead of waiters.shift())
PopWaiter(q) == [waiter |-> q[Len(q)], rest |-> SubSeq(q, 1, Len(q) - 1)]

\* waiters.shift(): the oldest waiter and the queue without it
ShiftWaiter(q) == [waiter |-> Head(q), rest |-> Tail(q)]

\* Callers are interchangeable: a new acquire() call is attributed to the
\* lowest-numbered caller that is not inside an acquire()/release() cycle.
LowestIdle == Min({x \in Callers : pc[x] = "idle"})

\* acquire() up to its first suspension point
Acquire(c) ==
    /\ UNCHANGED <<ctlVars, wsVars, execVars, frameVars>>
    /\ pc[c] = "idle"
    /\ c = LowestIdle
    /\ IF poolClosed
       THEN \* throw new Error('Pool is closed')
            /\ pc' = [pc EXCEPT ![c] = "errPoolClosed"]
            /\ UNCHANGED <<conns, waiters, poolClosed, ccClosed, ccActive, nextConn, held, how, queuedAtRelease>>
       ELSE LET avail == AvailableIdx(conns, ccClosed, ccActive) IN
            IF avail # {}
            THEN \* reuse the first idle connection of the roster
                 LET cc == conns[Min(avail)] IN
                 /\ ccActive' = ccActive \cup {cc}
                 /\ pc' = [pc EXCEPT ![c] = "holding"]
                 /\ held' = [held EXCEPT ![c] = cc]
                 /\ how' = [how EXCEPT ![c] = "reuse"]
                 /\ UNCHANGED <<conns, waiters, poolClosed, ccClosed, nextConn, queuedAtRelease>>
            ELSE IF Len(conns) < MaxSize
            THEN \* new ControlConnection; await cc.connect()
                 /\ nextConn < MaxConns
                 /\ nextConn' = nextConn + 1
                 /\ pc' = [pc EXCEPT ![c] = "connecting"]
                 /\ held' = [held EXCEPT ![c] = nextConn + 1]
                 /\ UNCHANGED <<conns, waiters, poolClosed, ccClosed, ccActive, how, queuedAtRelease>>
            ELSE \* pool is full: queue as a waiter
                 /\ waiters' = Append(waiters, c)
                 /\ pc' = [pc EXCEPT ![c] = "waiting"]
                 /\ UNCHANGED <<conns, poolClosed, ccClosed, ccActive, nextConn, held, how, queuedAtRelease>>

\* connect() resolved: the continuation of acquire() after the await (483-485)
ConnectOk(c) ==
    /\ UNCHANGED <<ctlVars, wsVars, execVars, frameVars>>
    /\ pc[c] = "connecting"
    /\ conns' = Append(conns, held[c])
    /\ ccActive' = ccActive \cup {held[c]}
    /\ pc' = [pc EXCEPT ![c] = "holding"]
    /\ how' = [how EXCEPT ![c] = "new"]
    /\ UNCHANGED <<waiters, poolClosed, ccClosed, nextConn, held, queuedAtRelease>>

\* (mutant: the connection that failed to connect is kept in the roster)
ConnectFailKeepsConn(c) ==
    /\ UNCHANGED <<ctlVars, wsVars, execVars, frameVars>>
    /\ pc[c] = "connecting"
    /\ pc' = [pc EXCEPT ![c] = "errConnect"]
    /\ conns' = Append(conns, held[c])
    /\ held' = [held EXCEPT ![c] = NoConn]
    /\ UNCHANGED <<waiters, poolClosed, ccClosed, ccActive, nextConn, how, queuedAtRelease>>

\* connect() rejected: acquire() rejects with that error, nothing else runs
ConnectFail(c) ==
    /\ UNCHANGED <<ctlVars, wsVars, execVars, frameVars>>
    /\ pc[c] = "connecting"
    /\ pc' = [pc EXCEPT ![c] = "errConnect"]
    /\ held' = [held EXCEPT ![c] = NoConn]
    /\ UNCHANGED <<conns, waiters, poolClosed, ccClosed, ccActive, nextConn, how, queuedAtRelease>>

\* the caller saw acquire() fail and may call it again
Return(c) ==
    /\ UNCHANGED <<ctlVars, wsVars, execVars, frameVars>>
    /\ pc[c] \in {"errPoolClosed", "errConnect"}
    /\ pc' = [pc EXCEPT ![c] = "idle"]
    /\ how' = [how EXCEPT ![c] = "none"]
    /\ UNCHANGED <<conns, waiters, poolClosed, ccClosed, ccActive, nextConn, held, queuedAtRelease>>

(***************************************************************************)
(* ControlPool.tryDrain (control.ts 518-541): the roster and the closed    *)
(* set after draining.                                                     *)
(***************************************************************************)
\* the n smallest members of a set of roster positions
FirstN(S, n) == {i \in S : Cardinality({j \in S : j <= i}) <= n}

\* the roster without the connections at the positions in drop, order kept:
\* this.conns.filter((c) => c !== cc) for each of them
SelectSeq2(roster, drop) ==
    LET gone == {roster[i] : i \in drop}
    IN SelectSeq(roster, LAMBDA x : x \notin gone)

\* (mutant: the drain closes every idle connection, whatever the target)
TryDrainAllIdle(roster, closedSet, activeSet, isClosed) ==
    IF isClosed \/ Len(roster) <= POOL_DRAIN_THRESHOLD
    THEN [roster |-> roster, closed |-> closedSet]
    ELSE LET drop == IdleIdx(roster, closedSet, activeSet)
         IN [roster |-> SelectSeq2(roster, drop),
             closed |-> closedSet \cup {roster[i] : i \in drop}]

TryDrain(roster, closedSet, activeSet, isClosed) ==
    IF isClosed \/ Len(roster) <= POOL_DRAIN_THRESHOLD
    THEN [roster |-> roster, closed |-> closedSet]
    ELSE LET idle == IdleIdx(roster, closedSet, activeSet)
             toClose == Len(roster) - POOL_DRAIN_TARGET
             drop == FirstN(idle, toClose)
         IN [roster |-> SelectSeq2(roster, drop),
             closed |-> closedSet \cup {roster[i] : i \in drop}]

(***************************************************************************)
(* ControlPool.release (control.ts 497-511), called once by the holder.    *)
(***************************************************************************)
\* (mutant: release() never looks at the waiter queue)
ReleaseIgnoresWaiters(c) ==
    /\ UNCHANGED <<ctlVars, wsVars, execVars, frameVars>>
    /\ pc[c] = "holding"
    /\ queuedAtRelease' = Len(waiters)
    /\ LET cc == held[c]
           d == TryDrain(conns, ccClosed, ccActive \ {cc}, poolClosed) IN
       /\ ccActive' = ccActive \ {cc}
       /\ conns' = d.roster
       /\ ccClosed' = d.closed
       /\ pc' = [pc EXCEPT ![c] = "idle"]
       /\ held' = [held EXCEPT ![c] = NoConn]
       /\ how' = [how EXCEPT ![c] = "none"]
       /\ UNCHANGED <<waiters, poolClosed, nextConn>>

Release(c) ==
    /\ UNCHANGED <<ctlVars, wsVars, execVars, frameVars>>
    /\ pc[c] = "holding"
    /\ queuedAtRelease' = Len(waiters)
    /\ LET cc == held[c] IN
       IF Len(waiters) > 0
       THEN \* hand the connection, marked active again, to the oldest waiter
            LET s == ShiftWaiter(waiters) IN
            /\ waiters' = s.rest
            /\ ccActive' = ccActive \cup {cc}
            /\ pc' = [pc EXCEPT ![c] = "idle", ![s.waiter] = "holding"]
            /\ held' = [held EXCEPT ![c] = NoConn, ![s.waiter] = cc]
            /\ how' = [how EXCEPT ![c] = "none", ![s.waiter] = "handoff"]
            /\ UNCHANGED <<conns, poolClosed, ccClosed, nextConn>>
       ELSE LET d == TryDrain(conns, ccClosed, ccActive \ {cc}, poolClosed) IN
            /\ ccActive' = ccActive \ {cc}
            /\ conns' = d.roster
            /\ ccClosed' = d.closed
            /\ pc' = [pc EXCEPT ![c] = "idle"]
            /\ held' = [held EXCEPT ![c] = NoConn]
            /\ how' = [how EXCEPT ![c] = "none"]
            /\ UNCHANGED <<waiters, poolClosed, nextConn>>

(***************************************************************************)
(* ControlConnection.handleClose seen from the pool (control.ts 350-356):  *)
(* the transport of a connected connection closes.                         *)
(***************************************************************************)
Connected == (1..nextConn) \ {held[c] : c \in {x \in Callers : pc[x] = "connecting"}}

TransportClose(cc) ==
    /\ UNCHANGED <<ctlVars, wsVars, execVars, frameVars>>
    /\ cc \in Connected
    /\ cc \notin ccClosed
    /\ ccClosed' = ccClosed \cup {cc}
    /\ UNCHANGED <<conns, waiters, poolClosed, ccActive, nextConn, pc, held, how, queuedAtRelease>>

(***************************************************************************)
(* ControlPool.close (control.ts 546-560).                                 *)
(***************************************************************************)
\* (mutant: close() forgets the queued waiters)
PoolCloseKeepsWaiters ==
    /\ UNCHANGED <<ctlVars, wsVars, execVars, frameVars>>
    /\ ~poolClosed
    /\ poolClosed' = TRUE
    /\ ccClosed' = ccClosed \cup {conns[i] : i \in DOMAIN conns}
    /\ conns' = <<>>
    /\ UNCHANGED <<waiters, pc, how, ccActive, nextConn, held, queuedAtRelease>>

PoolClose ==
    /\ UNCHANGED <<ctlVars, wsVars, execVars, frameVars>>
    /\ ~poolClosed
    /\ poolClosed' = TRUE
    /\ pc' = [c \in Callers |-> IF pc[c] = "waiting" THEN "errPoolClosed" ELSE pc[c]]
    /\ how' = [c \in Callers |-> IF pc[c] = "waiting" THEN "rejected" ELSE how[c]]
    /\ waiters' = <<>>
    /\ ccClosed' = ccClosed \cup {conns[i] : i \in DOMAIN conns}
    /\ conns' = <<>>
    /\ UNCHANGED <<ccActive, nextConn, held, queuedAtRelease>>

(***************************************************************************)
(* A large pool.  The default maxSize is MAX_POOL_SIZE = 100 (control.ts   *)
(* 441, 468), so the roster can grow past the drain threshold.  Populate   *)
(* sets the pool's fields to a roster of n connections, as a harness or a  *)
(* history of acquire() calls leaves them: a of them active, k more closed *)
(* by their transport, the others idle; callers 1 and 2 hold active        *)
(* connections, caller 3 may be queued.  The layouts enumerated include    *)
(* every roster release() can meet and more (release() leaves no idle      *)
(* connection in a roster above the threshold).                            *)
(***************************************************************************)
MaxRoster == 25       \* largest roster Populate builds

RosterSizes == POOL_DRAIN_THRESHOLD..MaxRoster

Populate(n) ==
    /\ nextConn = 0 /\ conns = <<>> /\ ~poolClosed
    /\ \A c \in Callers : pc[c] = "idle"
    /\ UNCHANGED <<ctlVars, wsVars, execVars, frameVars>>
    /\ \E a \in 1..n : \E k \in 0..(n - a) :
       \E heldClosed \in BOOLEAN, rev \in BOOLEAN, queued \in BOOLEAN :
          LET act == IF rev THEN (n - a + 1)..n ELSE 1..a
              clo == IF rev THEN (n - a - k + 1)..(n - a) ELSE (a + 1)..(a + k)
              h1 == IF rev THEN n ELSE 1
              h2 == IF rev THEN n - 1 ELSE 2
          IN /\ conns' = [i \in 1..n |-> i]
             /\ nextConn' = n
             /\ ccActive' = act
             /\ ccClosed' = clo \cup (IF heldClosed THEN {h1} ELSE {})
             /\ held' = [c \in Callers |->
                            IF c = 1 THEN h1
                            ELSE IF c = 2 /\ a >= 2 THEN h2 ELSE NoConn]
             /\ pc' = [c \in Callers |->
                          IF c = 1 \/ (c = 2 /\ a >= 2) THEN "holding"
                          ELSE IF c = 3 /\ queued THEN "waiting" ELSE "idle"]
             /\ how' = [c \in Callers |->
                           IF c = 1 \/ (c = 2 /\ a >= 2) THEN "new" ELSE "none"]
             /\ waiters' = IF queued THEN <<3>> ELSE <<>>
    /\ UNCHANGED <<poolClosed, queuedAtRelease>>

(***************************************************************************)
(* OpConn (control.ts 48-196).  An OpConn is a record; wait/waitValue/     *)
(* waitError are the state of the promise returned by its wait(), closes   *)
(* the number of 'close' events it has emitted.                            *)
(***************************************************************************)
MaxOps == 2           \* OpConns constructed on the connection in one run

NotExited == -1       \* OpConn.exitCode before any exit code is known
ExitCodes == {42}     \* non-default exit codes the server reports (0 is the default)
ErrMsgs == {"boom"}   \* args.error strings the server reports
NoOp == 0

Absent == [has |-> FALSE, v |-> 0]
Some(x) == [has |-> TRUE, v |-> x]

NewOpConn(isTty) ==
    [closed |-> FALSE, exitCode |-> NotExited, tty |-> isTty,
     wait |-> "none", waitValue |-> 0, waitError |-> "none",
     closes |-> 0]

\* the once('close') handler installed by wait(): resolve(this.exitCode)
SettleWait(o) ==
    IF o.wait = "pending"
    THEN [o EXCEPT !.wait = "resolved", !.waitValue = o.exitCode]
    ELSE o

\* (mutant: complete() closes without storing the exit code)
OpCompleteIgnoringCode(o, code) ==
    IF o.closed THEN o
    ELSE SettleWait([o EXCEPT !.closed = TRUE, !.closes = o.closes + 1])

\* OpConn.complete(exitCode?) (150-157)
OpComplete(o, code) ==
    IF o.closed THEN o
    ELSE SettleWait([o EXCEPT !.closed = TRUE,
                              !.exitCode = IF code.has THEN code.v ELSE o.exitCode,
                              !.closes = o.closes + 1])

\* (mutant: close() without the closed check: 'close' is emitted again)
OpCloseRecUnguarded(o) ==
    SettleWait([o EXCEPT !.closed = TRUE, !.closes = o.closes + 1])

\* OpConn.close() (162-166)
OpCloseRec(o) ==
    IF o.closed THEN o
    ELSE SettleWait([o EXCEPT !.closed = TRUE, !.closes = o.closes + 1])

\* OpConn.wait() (185-195)
OpWaitRec(o) ==
    IF o.closed
    THEN [o EXCEPT !.wait = "resolved", !.waitValue = o.exitCode]
    ELSE [o EXCEPT !.wait = "pending"]

OpIds == 1..Len(ops)

\* what a send call left on the transport: the OpConn that sent it and the
\* kind of frame, or nothing when the call returned or threw before ws.send
NoSend == [by |-> NoOp, kind |-> "none"]

\* ControlConnection.sendData (413-418): throws unless the socket is open
SendData(i, kind) ==
    IF wsReady = "OPEN" THEN [by |-> i, kind |-> kind] ELSE NoSend

\* a send call changes nothing but what is on the transport
SendFrame ==
    /\ UNCHANGED <<poolVars, wsVars, execVars, frameVars>>
    /\ UNCHANGED <<wsReady, opActive, opConn, closed, ops, startsSent,
                   startOpResult, caught>>
    /\ dataTo' = NoOp

\* OpConn.write(data) (62-77): throws on a closed OpConn
OpWrite(i) ==
    /\ i \in OpIds
    /\ sent' = IF ops[i].closed THEN NoSend ELSE SendData(i, "stdin")
    /\ SendFrame

\* OpConn.sendEOF() (82-85): returns on a closed or a TTY OpConn
OpSendEOF(i) ==
    /\ i \in OpIds
    /\ sent' = IF ops[i].closed \/ ops[i].tty THEN NoSend ELSE SendData(i, "eof")
    /\ SendFrame

\* OpConn.resize(cols, rows) (90-94): returns on a non-TTY OpConn
OpResize(i) ==
    /\ i \in OpIds
    /\ sent' = IF ~ops[i].tty THEN NoSend ELSE SendData(i, "resize")
    /\ SendFrame

\* OpConn.signal(sig) (99-102)
OpSignal(i) ==
    /\ i \in OpIds
    /\ sent' = SendData(i, "signal")
    /\ SendFrame

\* the caller calls op.wait()
OpWait(i) ==
    /\ UNCHANGED <<poolVars, wsVars, execVars, frameVars>>
    /\ i \in OpIds
    /\ ops[i].wait = "none"
    /\ ops' = [ops EXCEPT ![i] = OpWaitRec(ops[i])]
    /\ UNCHANGED <<wsReady, opActive, opConn, closed, startsSent,
                   startOpResult, caught>>
    /\ dataTo' = NoOp
    /\ UNCHANGED sent

\* the caller calls op.close()
OpClose(i) ==
    /\ UNCHANGED <<poolVars, wsVars, execVars, frameVars>>
    /\ i \in OpIds
    /\ ~ops[i].closed
    /\ ops' = [ops EXCEPT ![i] = OpCloseRec(ops[i])]
    /\ UNCHANGED <<wsReady, opActive, opConn, closed, startsSent,
                   startOpResult, caught>>
    /\ dataTo' = NoOp
    /\ UNCHANGED sent

(***************************************************************************)
(* ControlConnection (control.ts 201-439).                                 *)
(***************************************************************************)
\* connect() (239-293): creates the socket
CcConnect ==
    /\ UNCHANGED <<poolVars, wsVars, execVars, frameVars>>
    /\ wsReady = "NONE"
    /\ wsReady' = "CONNECTING"
    /\ UNCHANGED <<opActive, opConn, closed, ops, startsSent,
                   startOpResult, caught>>
    /\ dataTo' = NoOp
    /\ UNCHANGED sent

\* the socket's 'open' event (264-267)
CcOpen ==
    /\ UNCHANGED <<poolVars, wsVars, execVars, frameVars>>
    /\ wsReady = "CONNECTING"
    /\ wsReady' = "OPEN"
    /\ UNCHANGED <<opActive, opConn, closed, ops, startsSent,
                   startOpResult, caught>>
    /\ dataTo' = NoOp
    /\ UNCHANGED sent

\* the socket's 'close' event: handleClose (350-356)
CcHandleClose ==
    /\ UNCHANGED <<poolVars, wsVars, execVars, frameVars>>
    /\ wsReady \in {"CONNECTING", "OPEN", "CLOSING"}
    /\ wsReady' = "CLOSED"
    /\ closed' = TRUE
    /\ ops' = IF opConn # NoOp
              THEN [ops EXCEPT ![opConn] = OpCloseRec(ops[opConn])]
              ELSE ops
    /\ UNCHANGED <<opActive, opConn, startsSent, startOpResult, caught>>
    /\ dataTo' = NoOp
    /\ UNCHANGED sent

\* ControlConnection.close() (423-431)
CcClose ==
    /\ UNCHANGED <<poolVars, wsVars, execVars, frameVars>>
    /\ ~closed
    /\ ops' = IF opConn # NoOp
              THEN [ops EXCEPT ![opConn] = OpCloseRec(ops[opConn])]
              ELSE ops
    /\ wsReady' = IF wsReady = "OPEN" THEN "CLOSING" ELSE wsReady
    /\ closed' = TRUE
    /\ UNCHANGED <<opActive, opConn, startsSent, startOpResult, caught>>
    /\ dataTo' = NoOp
    /\ UNCHANGED sent

\* ControlConnection.clearOpConn() (232-234), called by ControlPool.release
ClearOpConn ==
    /\ UNCHANGED <<poolVars, wsVars, execVars, frameVars>>
    /\ opConn # NoOp
    /\ opConn' = NoOp
    /\ UNCHANGED <<wsReady, opActive, closed, ops, startsSent,
                   startOpResult, caught>>
    /\ dataTo' = NoOp
    /\ UNCHANGED sent

\* (mutant: startOp without the opActive check)
StartOpOutcomeNoBusyCheck(isClosed, active, ready) ==
    IF isClosed THEN "errClosed"
    ELSE IF ready # "OPEN" THEN "errNotConnected"
    ELSE "ok"

\* which check of startOp (362-372) stops the call, "ok" if none does
StartOpOutcome(isClosed, active, ready) ==
    IF isClosed THEN "errClosed"
    ELSE IF active THEN "errConflict"
    ELSE IF ready # "OPEN" THEN "errNotConnected"
    ELSE "ok"

\* startOp(op, options) (361-397)
StartOp(isTty) ==
    /\ UNCHANGED <<poolVars, wsVars, execVars, frameVars>>
    /\ Len(ops) < MaxOps
    /\ LET r == StartOpOutcome(closed, opActive, wsReady) IN
       /\ startOpResult' = r
       /\ IF r = "ok"
          THEN /\ opActive' = TRUE
               /\ ops' = Append(ops, NewOpConn(isTty))
               /\ opConn' = Len(ops) + 1
               /\ startsSent' = startsSent + 1
          ELSE UNCHANGED <<opActive, ops, opConn, startsSent>>
    /\ UNCHANGED <<wsReady, closed, caught>>
    /\ dataTo' = NoOp
    /\ UNCHANGED sent

\* handleControlMessage (324-345) run inside handleMessage's try/catch (302-307):
\* emit('error') on an OpConn without an 'error' listener throws, which
\* handleMessage swallows, so the rest of the case does not run.  The error
\* string (args.error) goes to the 'error' listeners only: no field of the
\* OpConn or of the connection keeps it.
\* (mutant: data goes to the OpConn created last, current or not)
DataTargetLatestOp(isText, hasPrefix) ==
    IF isText /\ hasPrefix THEN NoOp ELSE Len(ops)

\* the routing of handleMessage (298-319): the OpConn a message is handed to
\* as data; none for a text message that starts with CONTROL_PREFIX, the
\* current OpConn (none if it is null) for every other message
DataTarget(isText, hasPrefix) ==
    IF isText /\ hasPrefix THEN NoOp ELSE opConn

ControlMsgs ==
    [type : {"op.complete"}, code : {Absent} \cup {Some(x) : x \in ExitCodes},
     err : {"-"}]
    \cup [type : {"op.error"}, code : {Absent}, err : ErrMsgs]
    \cup [type : {"other"}, code : {Absent}, err : {"-"}]

\* emit('error') (338) throws: the OpConn has no 'error' listener.  Callers
\* add and remove listeners at will, so whether one is registered when the
\* envelope arrives (listening) is an input of the handler run.
Throws(type, listening) ==
    type = "op.error" /\ opConn # NoOp /\ ~listening

HandleControlMessage(type, code, err, listening) ==
    IF type = "op.complete"
    THEN /\ ops' = IF opConn # NoOp
                   THEN [ops EXCEPT ![opConn] =
                            OpComplete(ops[opConn], IF code.has THEN code ELSE Some(0))]
                   ELSE ops
         /\ opActive' = FALSE
         /\ opConn' = NoOp
    ELSE IF type = "op.error"
    THEN IF Throws(type, listening)
         THEN UNCHANGED <<ops, opActive, opConn>>
         ELSE /\ ops' = IF opConn # NoOp
                        THEN [ops EXCEPT ![opConn] =
                                 OpComplete(ops[opConn], Absent)]
                        ELSE ops
              /\ opActive' = FALSE
              /\ opConn' = NoOp
    ELSE UNCHANGED <<ops, opActive, opConn>>

\* a 'control:'-prefixed text message arrives (298-309)
RecvControl(type, code, err) ==
    /\ UNCHANGED <<poolVars, wsVars, execVars, frameVars>>
    /\ wsReady \in {"OPEN", "CLOSING"}
    /\ \E listening \in BOOLEAN :
          /\ HandleControlMessage(type, code, err, listening)
          /\ caught' = Throws(type, listening)
    /\ dataTo' = DataTarget(TRUE, TRUE)
    /\ UNCHANGED sent
    /\ UNCHANGED <<wsReady, closed, startsSent, startOpResult>>

\* OpConn.handleData (107-133): a binary frame is a stream id (0 for an empty
\* frame: no byte at all) and the first payload byte, if any
StreamStdout == 1
StreamStderr == 2
StreamExit == 3

Frames ==
    [len0 : {TRUE}, id : {StreamStdout}, payload : {Absent}]
    \cup [len0 : {FALSE}, id : {StreamStdout, StreamStderr},
          payload : {Some(7)}]
    \cup [len0 : {FALSE}, id : {StreamExit},
          payload : {Absent} \cup {Some(x) : x \in ExitCodes}]

\* (mutant: the Exit frame completes the operation, as in WSCommand)
HandleDataClosesOnExit(i, f) ==
    LET o == ops[i] IN
    IF ~o.tty /\ ~f.len0 /\ f.id = StreamExit
    THEN [ops EXCEPT ![i] = OpComplete(o, Some(IF f.payload.has THEN f.payload.v ELSE 0))]
    ELSE ops

HandleData(i, f) ==
    LET o == ops[i] IN
    IF o.tty
    THEN ops                       \* emit('stdout', data)
    ELSE IF f.len0
    THEN ops                       \* data.length === 0: return
    ELSE IF f.id = StreamStdout
    THEN ops                       \* emit('stdout', payload)
    ELSE IF f.id = StreamStderr
    THEN ops                       \* emit('stderr', payload)
    ELSE IF f.id = StreamExit
    THEN \* record the exit code, emit('exit'), do not close
         [ops EXCEPT ![i].exitCode = IF f.payload.has THEN f.payload.v ELSE 0]
    ELSE ops

\* a binary message arrives (311-318)
RecvData(f) ==
    /\ UNCHANGED <<poolVars, wsVars, execVars, frameVars>>
    /\ wsReady \in {"OPEN", "CLOSING"}
    /\ LET target == DataTarget(FALSE, FALSE) IN
          /\ ops' = IF target # NoOp THEN HandleData(target, f) ELSE ops
          /\ dataTo' = target
    /\ UNCHANGED sent
    /\ caught' = FALSE
    /\ UNCHANGED <<wsReady, opActive, opConn, closed, startsSent,
                   startOpResult>>

\* a text message without the control prefix arrives (311-318): handleText
\* (138-145) emits 'message' for JSON and ignores anything else
RecvText ==
    /\ UNCHANGED <<poolVars, wsVars, execVars, frameVars>>
    /\ wsReady \in {"OPEN", "CLOSING"}
    /\ caught' = FALSE
    /\ dataTo' = DataTarget(TRUE, FALSE)
    /\ UNCHANGED sent
    /\ UNCHANGED <<wsReady, opActive, opConn, closed, ops, startsSent, startOpResult>>

(***************************************************************************)
(* WSCommand (websocket.ts 20-383): one command session.                   *)
(***************************************************************************)
MaxMsgs == 3          \* inbound messages delivered in one run

\* WebSocket keepalive timeouts (websocket.ts 14-15)
WS_PING_INTERVAL == 15000
WS_PONG_WAIT == 45000

CleanClose == 1000    \* the close code WSCommand treats as a clean exit
AbnormalClose == 1006 \* a close code other than 1000
CloseCodes == {CleanClose, AbnormalClose}

\* Inbound messages.  A binary message is its bytes: none (len0), or a
\* stream id and the first payload byte, if any.  A text message is JSON
\* ({type:'exit', exit_code}, {type:'session_info', tty} or another object)
\* or raw text; JSON text starts with a byte that is no stream id.
BinMsgs ==
    [kind : {"bin"}, type : {"-"}, code : {0}, infoTty : {FALSE},
     len0 : {TRUE}, id : {StreamStdout}, payload : {Absent}]
    \cup [kind : {"bin"}, type : {"-"}, code : {0}, infoTty : {FALSE},
          len0 : {FALSE}, id : {StreamStdout, StreamStderr}, payload : {Some(7)}]
    \cup [kind : {"bin"}, type : {"-"}, code : {0}, infoTty : {FALSE},
          len0 : {FALSE}, id : {StreamExit},
          payload : {Absent} \cup {Some(x) : x \in ExitCodes}]

TextMsgs ==
    [kind : {"json"}, type : {"exit"}, code : ExitCodes, infoTty : {FALSE},
     len0 : {FALSE}, id : {0}, payload : {Absent}]
    \cup [kind : {"json"}, type : {"session_info"}, code : {0}, infoTty : BOOLEAN,
          len0 : {FALSE}, id : {0}, payload : {Absent}]
    \cup [kind : {"json"}, type : {"other"}, code : {0}, infoTty : {FALSE},
          len0 : {FALSE}, id : {0}, payload : {Absent}]
    \cup [kind : {"raw"}, type : {"-"}, code : {0}, infoTty : {FALSE},
          len0 : {FALSE}, id : {0}, payload : {Absent}]

Msgs == BinMsgs \cup TextMsgs

\* a zero-length binary message: a frame with no tag byte
EmptyFrame(m) == m.kind = "bin" /\ m.len0

Emit(evs, e, x) == Append(evs, [ev |-> e, v |-> x])

\* the fields one handler run may change, gathered in a record
Session ==
    [tty |-> sTty, done |-> done, exitCode |-> exitCode, events |-> events,
     ready |-> sReady, pingOn |-> pingOn, infoWait |-> infoWait]

\* WSCommand.close() (362-367): stopKeepalive, then ws.close if the socket is open
CloseCall(st) ==
    [st EXCEPT !.pingOn = FALSE,
               !.ready = IF st.ready = "OPEN" THEN "CLOSING" ELSE st.ready]

\* handleMessage, TTY branch (207-230)
HandleTty(st, m) ==
    IF m.kind = "json"
    THEN LET s1 == IF m.type = "exit"
                   THEN [st EXCEPT !.exitCode = m.code, !.done = TRUE,
                                   !.events = IF st.done THEN st.events
                                              ELSE Emit(st.events, "exit", m.code)]
                   ELSE st
         IN [s1 EXCEPT !.events = Emit(s1.events, "message", 0)]
    ELSE IF m.kind = "raw"
    THEN [st EXCEPT !.events = Emit(st.events, "message", 0)]
    ELSE [st EXCEPT !.events = Emit(st.events, "stdout", 0)]

\* (mutant: the Exit case emits 'exit' without looking at done)
HandleNonTtyAlwaysEmits(st, m) ==
    IF m.len0 THEN st
    ELSE IF m.id = StreamStdout
    THEN [st EXCEPT !.events = Emit(st.events, "stdout", m.payload.v)]
    ELSE IF m.id = StreamStderr
    THEN [st EXCEPT !.events = Emit(st.events, "stderr", m.payload.v)]
    ELSE IF m.id = StreamExit
    THEN LET c == IF m.payload.has THEN m.payload.v ELSE 0 IN
         CloseCall([st EXCEPT !.exitCode = c, !.done = TRUE,
                              !.events = Emit(st.events, "exit", c)])
    ELSE st

\* (mutant: no length check; an empty message is emitted as empty output)
HandleNonTtyEmptyIsOutput(st, m) ==
    IF m.len0 THEN [st EXCEPT !.events = Emit(st.events, "stdout", 0)]
    ELSE IF m.id = StreamStdout
    THEN [st EXCEPT !.events = Emit(st.events, "stdout", m.payload.v)]
    ELSE IF m.id = StreamStderr
    THEN [st EXCEPT !.events = Emit(st.events, "stderr", m.payload.v)]
    ELSE IF m.id = StreamExit
    THEN LET c == IF m.payload.has THEN m.payload.v ELSE 0 IN
         CloseCall([st EXCEPT !.exitCode = c, !.done = TRUE,
                              !.events = IF st.done THEN st.events
                                         ELSE Emit(st.events, "exit", c)])
    ELSE st

\* handleMessage, non-TTY branch (231-255)
HandleNonTty(st, m) ==
    IF m.len0 THEN st
    ELSE IF m.id = StreamStdout
    THEN [st EXCEPT !.events = Emit(st.events, "stdout", m.payload.v)]
    ELSE IF m.id = StreamStderr
    THEN [st EXCEPT !.events = Emit(st.events, "stderr", m.payload.v)]
    ELSE IF m.id = StreamExit
    THEN LET c == IF m.payload.has THEN m.payload.v ELSE 0 IN
         CloseCall([st EXCEPT !.exitCode = c, !.done = TRUE,
                              !.events = IF st.done THEN st.events
                                         ELSE Emit(st.events, "exit", c)])
    ELSE st

\* handleMessage (203-256)
HandleMessage(st, m) ==
    IF st.tty THEN HandleTty(st, m) ELSE HandleNonTty(st, m)

\* (mutant: any JSON message ends the wait, not only session_info)
InfoHandlerAnyJsonResolves(st, m) ==
    IF st.infoWait \notin {"waiting", "timedOut"} THEN st
    ELSE IF m.kind = "json"
    THEN [st EXCEPT !.tty = m.infoTty,
                    !.events = Emit(st.events, "message", 0),
                    !.infoWait = IF st.infoWait = "waiting"
                                 THEN "gotInfo" ELSE "timedOutGotInfo"]
    ELSE st

\* messageHandler of waitForSessionInfo (126-145); it stays installed after
\* the timeout fired, until a session_info message removes it
InfoHandler(st, m) ==
    IF st.infoWait \notin {"waiting", "timedOut"} THEN st
    ELSE IF m.kind = "json" /\ m.type = "session_info"
    THEN [st EXCEPT !.tty = m.infoTty,
                    !.events = Emit(st.events, "message", 0),
                    !.infoWait = IF st.infoWait = "waiting"
                                 THEN "gotInfo" ELSE "timedOutGotInfo"]
    ELSE IF m.kind = "json"
    THEN [st EXCEPT !.events = Emit(st.events, "message", 0)]
    ELSE st

\* the handler run emitted 'exit': the once('exit') listener of wait() ran
ExitEmitted(st) ==
    \E i \in (Len(events) + 1)..Len(st.events) : st.events[i].ev = "exit"

\* write a handler's result back
Store(st) ==
    /\ sTty' = st.tty
    /\ done' = st.done
    /\ exitCode' = st.exitCode
    /\ events' = st.events
    /\ sReady' = st.ready
    /\ pingOn' = st.pingOn
    /\ infoWait' = st.infoWait
    /\ waitState' = IF waitState = "pending" /\ ExitEmitted(st)
                    THEN "resolved" ELSE waitState

\* WSCommand.wait() (372-382): the exit code at once when done is set, else a
\* promise the next 'exit' event resolves
WsWait ==
    /\ UNCHANGED <<poolVars, ctlVars, execVars, frameVars>>
    /\ sReady # "UNBUILT"
    /\ waitState = "none"
    /\ waitState' = IF done THEN "resolved" ELSE "pending"
    /\ UNCHANGED <<sReady, sTty, initTty, isAttach, started, done, exitCode,
                   sCloseError, startState, startError, resolved, infoWait,
                   pingOn, ticks, events, msgs, dropped>>

\* the constructor (37-50) and the caller's isAttach assignment
WsConstruct(t, a) ==
    /\ UNCHANGED <<poolVars, ctlVars, execVars, frameVars>>
    /\ sReady = "UNBUILT"
    /\ sReady' = "NONE"
    /\ sTty' = t
    /\ initTty' = t
    /\ isAttach' = a
    /\ UNCHANGED <<started, done, exitCode, sCloseError, startState, startError, resolved,
                   infoWait, pingOn, ticks, events, msgs, dropped, waitState>>

\* start() (55-114)
WsStart ==
    /\ UNCHANGED <<poolVars, ctlVars, execVars, frameVars>>
    /\ sReady = "NONE"
    /\ ~started
    /\ started' = TRUE
    /\ sReady' = "CONNECTING"
    /\ startState' = "pending"
    /\ UNCHANGED <<sTty, initTty, isAttach, done, exitCode, sCloseError, resolved, startError,
                   infoWait, pingOn, ticks, events, msgs, dropped, waitState>>

\* the 'open' listener (71-87) up to its await
WsOpen ==
    /\ UNCHANGED <<poolVars, ctlVars, execVars, frameVars>>
    /\ sReady = "CONNECTING"
    /\ sReady' = "OPEN"
    /\ IF isAttach
       THEN /\ infoWait' = "waiting"
            /\ UNCHANGED <<pingOn, ticks, resolved, startState>>
       ELSE /\ pingOn' = TRUE
            /\ ticks' = 0
            /\ resolved' = TRUE
            /\ startState' = "resolved"
            /\ UNCHANGED infoWait
    /\ UNCHANGED <<sTty, initTty, isAttach, started, done, exitCode, sCloseError,
                   startError, events, msgs, dropped, waitState>>

\* the 'open' listener after waitForSessionInfo resolved (82-86)
WsAttachResume ==
    /\ UNCHANGED <<poolVars, ctlVars, execVars, frameVars>>
    /\ infoWait = "gotInfo"
    /\ infoWait' = "resumed"
    /\ pingOn' = TRUE
    /\ ticks' = 0
    /\ resolved' = TRUE
    /\ startState' = IF startState = "pending" THEN "resolved" ELSE startState
    /\ UNCHANGED <<sReady, sTty, initTty, isAttach, started, done, exitCode,
                   sCloseError, startError, events, msgs, dropped, waitState>>

TimeoutError == "Timeout waiting for session_info"
TransportError == "WebSocket error"

\* reject(err) on the promise of start(): settles it only while it is pending
RejectStart(err) ==
    /\ startState' = IF startState = "pending" THEN "rejected" ELSE startState
    /\ startError' = IF startState = "pending" THEN err ELSE startError

\* (mutant: the timer ends the wait without rejecting)
WsInfoTimeoutSilent ==
    /\ UNCHANGED <<poolVars, ctlVars, execVars, frameVars>>
    /\ infoWait = "waiting"
    /\ infoWait' = "timedOut"
    /\ UNCHANGED <<startState, startError>>
    /\ UNCHANGED <<sReady, sTty, initTty, isAttach, started, done, exitCode,
                   sCloseError, resolved, pingOn, ticks, events, msgs, dropped, waitState>>

\* the 10 s timer of waitForSessionInfo fires (122-124, 76-79)
WsInfoTimeout ==
    /\ UNCHANGED <<poolVars, ctlVars, execVars, frameVars>>
    /\ infoWait = "waiting"
    /\ infoWait' = "timedOut"
    /\ RejectStart(TimeoutError)
    /\ UNCHANGED <<sReady, sTty, initTty, isAttach, started, done, exitCode,
                   sCloseError, resolved, pingOn, ticks, events, msgs, dropped, waitState>>

\* (mutant: the 'error' listener emits every transport error at once)
WsErrorAlwaysEmits ==
    /\ UNCHANGED <<poolVars, ctlVars, execVars, frameVars>>
    /\ sReady \in {"CONNECTING", "OPEN", "CLOSING"}
    /\ sReady' = "FAILED"
    /\ events' = Emit(events, "error", 0)
    /\ RejectStart(TransportError)
    /\ UNCHANGED <<sTty, initTty, isAttach, started, done, exitCode, resolved,
                   infoWait, pingOn, ticks, msgs, dropped, waitState, sCloseError>>

\* the 'error' listener (89-101); the socket then only fires 'close'
WsError ==
    /\ UNCHANGED <<poolVars, ctlVars, execVars, frameVars>>
    /\ sReady \in {"CONNECTING", "OPEN", "CLOSING"}
    /\ sReady' = "FAILED"
    /\ IF done
       THEN UNCHANGED <<events, startState, startError, sCloseError>>
       ELSE IF ~resolved
       THEN /\ events' = Emit(events, "error", 0)
            /\ RejectStart(TransportError)
            /\ UNCHANGED sCloseError
       ELSE /\ sCloseError' = TRUE
            /\ UNCHANGED <<events, startState, startError>>
    /\ UNCHANGED <<sTty, initTty, isAttach, started, done, exitCode, resolved,
                   infoWait, pingOn, ticks, msgs, dropped, waitState>>

\* a message arrives: the 'message' listener of start() (103-105) runs
\* handleMessage, then the messageHandler of waitForSessionInfo if installed
WsMessage(m) ==
    /\ UNCHANGED <<poolVars, ctlVars, execVars, frameVars>>
    /\ sReady \in {"OPEN", "CLOSING"}
    /\ msgs < MaxMsgs
    /\ msgs' = msgs + 1
    /\ ticks' = 0
    /\ dropped' = (~sTty /\ EmptyFrame(m))
    /\ Store(InfoHandler(HandleMessage(Session, m), m))
    /\ UNCHANGED <<initTty, isAttach, started, sCloseError, startState, startError, resolved>>

\* (mutant: a close without an exit frame counts as an exit, as in TTY mode)
HandleCloseExitFromCode(st, code) ==
    LET s0 == [st EXCEPT !.pingOn = FALSE, !.ready = "CLOSED"] IN
    IF s0.done THEN s0
    ELSE LET s1 == [s0 EXCEPT !.done = TRUE]
             c == IF s1.exitCode = NotExited
                  THEN (IF code = CleanClose THEN 0 ELSE 1)
                  ELSE s1.exitCode
         IN [s1 EXCEPT !.exitCode = c, !.events = Emit(s1.events, "exit", c)]

\* (mutant: a TTY close without exit notification always counts as exit 0)
HandleCloseAlwaysZero(st, code) ==
    LET s0 == [st EXCEPT !.pingOn = FALSE, !.ready = "CLOSED"] IN
    IF s0.done THEN s0
    ELSE LET s1 == [s0 EXCEPT !.done = TRUE] IN
         IF ~s1.tty /\ s1.exitCode = NotExited
         THEN [s1 EXCEPT !.events = Emit(s1.events, "error", 0)]
         ELSE LET c == IF s1.tty /\ s1.exitCode = NotExited
                       THEN 0
                       ELSE s1.exitCode
              IN [s1 EXCEPT !.exitCode = c, !.events = Emit(s1.events, "exit", c)]

\* handleClose (261-282)
HandleClose(st, code) ==
    LET s0 == [st EXCEPT !.pingOn = FALSE, !.ready = "CLOSED"] IN
    IF s0.done THEN s0
    ELSE LET s1 == [s0 EXCEPT !.done = TRUE] IN
         IF ~s1.tty /\ s1.exitCode = NotExited
         THEN [s1 EXCEPT !.events = Emit(s1.events, "error", 0)]
         ELSE LET c == IF s1.tty /\ s1.exitCode = NotExited
                       THEN (IF code = CleanClose THEN 0 ELSE 1)
                       ELSE s1.exitCode
              IN [s1 EXCEPT !.exitCode = c, !.events = Emit(s1.events, "exit", c)]

\* the socket's 'close' event (107-109)
WsCloseEvent(code) ==
    /\ UNCHANGED <<poolVars, ctlVars, execVars, frameVars>>
    /\ sReady \in {"OPEN", "CLOSING", "FAILED"}
    /\ Store(HandleClose(Session, code))
    /\ UNCHANGED <<initTty, isAttach, started, sCloseError, startState, startError, resolved,
                   ticks, msgs, dropped>>

\* the caller calls close() (362-367)
WsClose ==
    /\ UNCHANGED <<poolVars, ctlVars, execVars, frameVars>>
    /\ sReady \in {"CONNECTING", "OPEN", "CLOSING", "FAILED"}
    /\ Store(CloseCall(Session))
    /\ UNCHANGED <<initTty, isAttach, started, sCloseError, startState, startError, resolved,
                   ticks, msgs, dropped>>

\* (mutant: the silence limit is reached at the threshold, not beyond it)
KeepaliveTimedOutAtThreshold(n) == n * WS_PING_INTERVAL >= WS_PONG_WAIT

\* the keepalive interval fires (158-176)
KeepaliveTimedOut(n) == n * WS_PING_INTERVAL > WS_PONG_WAIT

WsKeepaliveTick ==
    /\ UNCHANGED <<poolVars, ctlVars, execVars, frameVars>>
    /\ pingOn
    /\ IF sReady # "OPEN"
       THEN /\ Store([Session EXCEPT !.pingOn = FALSE])
            /\ UNCHANGED ticks
       ELSE /\ ticks' = ticks + 1
            /\ IF KeepaliveTimedOut(ticks + 1)
               THEN Store(CloseCall([Session EXCEPT
                                        !.events = Emit(events, "error", 0)]))
               ELSE Store(Session)
    /\ UNCHANGED <<initTty, isAttach, started, sCloseError, startState, startError, resolved, msgs, dropped>>

\* the operations that decide what an OpConn may send, and the send calls
NextSend ==
    \/ CcConnect
    \/ CcOpen
    \/ CcHandleClose
    \/ CcClose
    \/ ClearOpConn
    \/ \E t \in BOOLEAN : StartOp(t)
    \/ \E m \in ControlMsgs : RecvControl(m.type, m.code, m.err)
    \/ \E i \in 1..MaxOps : OpClose(i)
    \/ \E i \in 1..MaxOps : OpWrite(i)
    \/ \E i \in 1..MaxOps : OpSendEOF(i)
    \/ \E i \in 1..MaxOps : OpResize(i)
    \/ \E i \in 1..MaxOps : OpSignal(i)

NextCtl ==
    \/ CcConnect
    \/ CcOpen
    \/ CcHandleClose
    \/ CcClose
    \/ ClearOpConn
    \/ \E t \in BOOLEAN : StartOp(t)
    \/ \E m \in ControlMsgs : RecvControl(m.type, m.code, m.err)
    \/ \E f \in Frames : RecvData(f)
    \/ RecvText
    \/ \E i \in 1..MaxOps : OpWait(i)
    \/ \E i \in 1..MaxOps : OpClose(i)

(***************************************************************************)
(* execFile (exec.ts 250-309) and execFileViaControl (part_004 339-421):   *)
(* the promise a call returns and the listeners that settle it.  Both      *)
(* functions collect stdout and stderr chunks, reject when a stream        *)
(* outgrows maxBuffer or an 'error' event arrives, and settle with the     *)
(* exit code once it is known: from the command's 'exit' event, or from    *)
(* op.wait() on a control connection.  What the two sources emit is the    *)
(* business of the session and control models; here every order of         *)
(* events is allowed.                                                      *)
(***************************************************************************)
MaxChunks == 2        \* chunks received per output stream in one run
MaxBuffer == 2        \* options.maxBuffer of the call, in bytes

ChunkSizes == {1, 2}
ExecCodes == {0, NotExited} \cup ExitCodes   \* codes an exit can report
ExecVias == {"session", "control"}

NoValue == [kind |-> "none", exitCode |-> 0, stdout |-> 0, stderr |-> 0]

RECURSIVE ConcatLength(_)
\* Buffer.concat(chunks).length
ConcatLength(chunks) ==
    IF chunks = <<>> THEN 0 ELSE Head(chunks) + ConcatLength(Tail(chunks))

\* the ExecResult built from the chunks collected so far (exec.ts 286-293)
ExecResultOf(code, outChunks, errChunks) ==
    [kind |-> "result", exitCode |-> code,
     stdout |-> ConcatLength(outChunks), stderr |-> ConcatLength(errChunks)]

\* new Error(...): maxBuffer exceeded, an 'error' event, a failed start
PlainError == [kind |-> "Error", exitCode |-> 0, stdout |-> 0, stderr |-> 0]

\* resolve(value) / reject(value): only the first call settles the promise
Settle(how2, value) ==
    /\ execPromise' = IF execPromise = "pending" THEN how2 ELSE execPromise
    /\ execValue' = IF execPromise = "pending" THEN value ELSE execValue

\* the listeners of the call are installed: they stay so after it returned
Listening == execPos \in {"listening", "returned"}

\* the call: listeners installed on the command, or the wait for a connection
ExecCall(via) ==
    /\ UNCHANGED <<poolVars, ctlVars, wsVars, frameVars>>
    /\ execVia = "none"
    /\ execVia' = via
    /\ execPromise' = "pending"
    /\ execPos' = IF via = "control" THEN "acquire" ELSE "listening"
    /\ UNCHANGED <<execValue, stdoutChunks, stderrChunks, killed, released>>

\* the 'data' / 'stdout' listener (exec.ts 267-274, part_004 373-380)
ExecStdout(n) ==
    /\ UNCHANGED <<poolVars, ctlVars, wsVars, frameVars>>
    /\ Listening
    /\ Len(stdoutChunks) < MaxChunks
    /\ stdoutChunks' = Append(stdoutChunks, n)
    /\ IF ConcatLength(stdoutChunks) + n > MaxBuffer
       THEN /\ killed' = TRUE
            /\ Settle("rejected", PlainError)
       ELSE UNCHANGED <<killed, execPromise, execValue>>
    /\ UNCHANGED <<execVia, stderrChunks, execPos, released>>

\* the 'data' / 'stderr' listener (exec.ts 276-283, part_004 382-389)
ExecStderr(n) ==
    /\ UNCHANGED <<poolVars, ctlVars, wsVars, frameVars>>
    /\ Listening
    /\ Len(stderrChunks) < MaxChunks
    /\ stderrChunks' = Append(stderrChunks, n)
    /\ IF ConcatLength(stderrChunks) + n > MaxBuffer
       THEN /\ killed' = TRUE
            /\ Settle("rejected", PlainError)
       ELSE UNCHANGED <<killed, execPromise, execValue>>
    /\ UNCHANGED <<execVia, stdoutChunks, execPos, released>>

\* (mutant: every exit resolves, whatever the code)
ExecExitAlwaysResolves(code) ==
    /\ UNCHANGED <<poolVars, ctlVars, wsVars, frameVars>>
    /\ Listening
    /\ Settle("resolved", ExecResultOf(code, stdoutChunks, stderrChunks))
    /\ UNCHANGED <<execVia, stdoutChunks, stderrChunks, killed, execPos, released>>

\* the 'exit' listener (exec.ts 285-301), or the continuation of op.wait()
\* (part_004 399-414): the command exited with this code
ExecExit(code) ==
    /\ UNCHANGED <<poolVars, ctlVars, wsVars, frameVars>>
    /\ Listening
    /\ LET result == ExecResultOf(code, stdoutChunks, stderrChunks) IN
       IF code # 0
       THEN Settle("rejected", [result EXCEPT !.kind = "ExecError"])
       ELSE Settle("resolved", result)
    /\ UNCHANGED <<execVia, stdoutChunks, stderrChunks, killed, execPos, released>>

\* the 'error' listener (exec.ts 303-305, part_004 391-393) or
\* cmd.start().catch(reject) (exec.ts 307): reject with that error
ExecOnError ==
    /\ UNCHANGED <<poolVars, ctlVars, wsVars, frameVars>>
    /\ Listening
    /\ Settle("rejected", PlainError)
    /\ UNCHANGED <<execVia, stdoutChunks, stderrChunks, killed, execPos, released>>

\* execFileViaControl (part_004 339-421) around the listeners.
\* sprite.getControlConnection() resolved (350)
ExecAcquired ==
    /\ UNCHANGED <<poolVars, ctlVars, wsVars, frameVars>>
    /\ execPos = "acquire"
    /\ execPos' = "startOp"
    /\ UNCHANGED <<execVia, execPromise, execValue, stdoutChunks, stderrChunks,
                   killed, released>>

\* sprite.getControlConnection() rejected (350): the call throws before try
ExecAcquireFail ==
    /\ UNCHANGED <<poolVars, ctlVars, wsVars, frameVars>>
    /\ execPos = "acquire"
    /\ execPos' = "returnedNoConn"
    /\ Settle("rejected", PlainError)
    /\ UNCHANGED <<execVia, stdoutChunks, stderrChunks, killed, released>>

\* cc.startOp resolved (365): the listeners are installed (367-414)
ExecStartOpOk ==
    /\ UNCHANGED <<poolVars, ctlVars, wsVars, frameVars>>
    /\ execPos = "startOp"
    /\ execPos' = "listening"
    /\ UNCHANGED <<execVia, execPromise, execValue, stdoutChunks, stderrChunks,
                   killed, released>>

\* cc.startOp threw (365): the try block is left with that error
ExecStartOpFail ==
    /\ UNCHANGED <<poolVars, ctlVars, wsVars, frameVars>>
    /\ execPos = "startOp"
    /\ execPos' = "startFailed"
    /\ Settle("rejected", PlainError)
    /\ UNCHANGED <<execVia, stdoutChunks, stderrChunks, killed, released>>

\* the try block has been left: startOp threw or the awaited promise settled
TryLeft ==
    /\ execVia = "control"
    /\ \/ execPos = "startFailed"
       \/ execPos = "listening" /\ execPromise # "pending"

\* (mutant: the connection is released only when the command succeeded)
ExecFinallyOnSuccess ==
    /\ UNCHANGED <<poolVars, ctlVars, wsVars, frameVars>>
    /\ TryLeft
    /\ released' = IF execPromise = "resolved" THEN released + 1 ELSE released
    /\ execPos' = "returned"
    /\ UNCHANGED <<execVia, execPromise, execValue, stdoutChunks, stderrChunks, killed>>

\* the finally block (417-420): releaseControlConnection(sprite, cc)
ExecFinally ==
    /\ UNCHANGED <<poolVars, ctlVars, wsVars, frameVars>>
    /\ TryLeft
    /\ released' = released + 1
    /\ execPos' = "returned"
    /\ UNCHANGED <<execVia, execPromise, execValue, stdoutChunks, stderrChunks, killed>>

NextExec ==
    \/ \E via \in ExecVias : ExecCall(via)
    \/ \E n \in ChunkSizes : ExecStdout(n)
    \/ \E n \in ChunkSizes : ExecStderr(n)
    \/ \E code \in ExecCodes : ExecExit(code)
    \/ ExecOnError
    \/ ExecAcquired
    \/ ExecAcquireFail
    \/ ExecStartOpOk
    \/ ExecStartOpFail
    \/ ExecFinally

(***************************************************************************)
(* The frame codec of the non-TTY protocol: OpConn.write / sendEOF         *)
(* (control.ts 62-85) and the head of OpConn.handleData (107-116);         *)
(* WSCommand.writeStdin / sendStdinEOF / handleMessage (websocket.ts       *)
(* 231-309) hold the same statements.  A frame is a sequence of bytes.     *)
(***************************************************************************)
MaxLen == 2           \* longest payload, in bytes

StreamStdin == 0
StreamStdinEOF == 4
StreamIds == {StreamStdin, StreamStdout, StreamStderr, StreamExit, StreamStdinEOF}
NoTag == -1           \* streamId before any frame was decoded

PayloadBytes == {0, 3, 7, 255}

\* every byte string of at most n bytes
BytesUpTo(n) == UNION {[1..k -> PayloadBytes] : k \in 0..n}

Payloads == BytesUpTo(MaxLen)

\* the frames a peer can send: a tag byte followed by a payload, or nothing
WireFrames == {<<tag>> \o p : tag \in StreamIds, p \in Payloads} \cup {<<>>}

\* write() in non-PTY mode (72-74): allocUnsafe(data.length + 1),
\* message[0] = StreamID.Stdin, data.copy(message, 1)
EncodeStdin(data) ==
    [i \in 1..(Len(data) + 1) |-> IF i = 1 THEN StreamStdin ELSE data[i - 1]]

\* (mutant: the payload is taken from the first byte on, tag included)
DecodeKeepsTag(bytes) ==
    [streamId |-> bytes[1], payload |-> bytes]

\* handleData in non-PTY mode (115-116): data[0] and data.subarray(1)
Decode(bytes) ==
    [streamId |-> bytes[1], payload |-> SubSeq(bytes, 2, Len(bytes))]

\* the locals of an earlier handleData run do not outlive it
ForgetLocals ==
    /\ streamId' = NoTag
    /\ payload' = <<>>
    /\ decoded' = "none"

\* OpConn.write(data) / WSCommand.writeStdin(data)
Write(data) ==
    /\ wire' = EncodeStdin(data)
    /\ ForgetLocals
    /\ UNCHANGED <<poolVars, ctlVars, wsVars, execVars>>

\* OpConn.sendEOF() / WSCommand.sendStdinEOF(): Buffer.from([StreamID.StdinEOF])
SendEOF ==
    /\ wire' = <<StreamStdinEOF>>
    /\ ForgetLocals
    /\ UNCHANGED <<poolVars, ctlVars, wsVars, execVars>>

\* a binary frame arrives at handleData (107-116)
RecvFrame(bytes) ==
    /\ wire' = bytes
    /\ IF Len(bytes) = 0
       THEN \* if (data.length === 0) return
            /\ decoded' = "empty"
            /\ UNCHANGED <<streamId, payload>>
       ELSE /\ decoded' = "frame"
            /\ streamId' = Decode(bytes).streamId
            /\ payload' = Decode(bytes).payload
    /\ UNCHANGED <<poolVars, ctlVars, wsVars, execVars>>

NextFrame ==
    \/ \E data \in Payloads : Write(data)
    \/ SendEOF
    \/ \E bytes \in WireFrames : RecvFrame(bytes)

(***************************************************************************)
(* The state after construction of the pool, of the control connection     *)
(* and before the construction of the command session.                     *)
(***************************************************************************)
Init ==
    /\ conns = <<>>
    /\ waiters = <<>>
    /\ poolClosed = FALSE
    /\ ccClosed = {}
    /\ ccActive = {}
    /\ nextConn = 0
    /\ pc = [c \in Callers |-> "idle"]
    /\ held = [c \in Callers |-> NoConn]
    /\ how = [c \in Callers |-> "none"]
    /\ queuedAtRelease = 0
    /\ wsReady = "NONE"
    /\ opActive = FALSE
    /\ opConn = NoOp
    /\ closed = FALSE
    /\ ops = <<>>
    /\ startsSent = 0
    /\ startOpResult = "none"
    /\ caught = FALSE
    /\ dataTo = NoOp
    /\ sent = NoSend
    /\ sReady = "UNBUILT"
    /\ sTty = FALSE
    /\ initTty = FALSE
    /\ isAttach = FALSE
    /\ started = FALSE
    /\ done = FALSE
    /\ exitCode = NotExited
    /\ sCloseError = FALSE
    /\ startState = "none"
    /\ startError = "none"
    /\ resolved = FALSE
    /\ infoWait = "off"
    /\ pingOn = FALSE
    /\ ticks = 0
    /\ events = <<>>
    /\ msgs = 0
    /\ dropped = FALSE
    /\ waitState = "none"
    /\ execVia = "none"
    /\ execPromise = "none"
    /\ execValue = NoValue
    /\ stdoutChunks = <<>>
    /\ stderrChunks = <<>>
    /\ killed = FALSE
    /\ execPos = "none"
    /\ released = 0
    /\ wire = <<>>
    /\ streamId = NoTag
    /\ payload = <<>>
    /\ decoded = "none"

NextPool ==
    \/ \E c \in Callers : Acquire(c)
    \/ \E c \in Callers : ConnectOk(c)
    \/ \E c \in Callers : ConnectFail(c)
    \/ \E c \in Callers : Return(c)
    \/ \E c \in Callers : Release(c)
    \/ \E cc \in ConnIds : TransportClose(cc)
    \/ PoolClose

NextDrain ==
    \/ \E n \in RosterSizes : Populate(n)
    \/ \E c \in Callers : Release(c)

NextWS ==
    \/ \E t \in BOOLEAN, a \in BOOLEAN : WsConstruct(t, a)
    \/ WsStart
    \/ WsOpen
    \/ WsAttachResume
    \/ WsInfoTimeout
    \/ WsError
    \/ \E m \in Msgs : WsMessage(m)
    \/ \E code \in CloseCodes : WsCloseEvent(code)
    \/ WsClose
    \/ WsKeepaliveTick
    \/ WsWait

vars == <<poolVars, ctlVars, wsVars, execVars, frameVars>>

\* the pool and its callers
SpecPool == Init /\ [][NextPool]_vars

\* what the callers and the network guarantee: a caller that holds a
\* connection releases it (exec's finally block), a pending connect() settles,
\* and a caller whose acquire() failed returns
PoolFairness ==
    /\ \A c \in Callers : WF_vars(Release(c))
    /\ \A c \in Callers : WF_vars(ConnectOk(c) \/ ConnectFail(c))
    /\ \A c \in Callers : WF_vars(Return(c))

\* the pool with callers that release every connection they hold
SpecPoolLive == Init /\ [][NextPool]_vars /\ PoolFairness

\* release() on a pool whose roster is near the drain threshold
SpecDrain == Init /\ [][NextDrain]_vars

\* one execFile call and the events it listens to
SpecExec == Init /\ [][NextExec]_vars

\* frames written and read by the non-TTY codec
SpecFrame == Init /\ [][NextFrame]_vars

\* one control connection and its operations
SpecCtl == Init /\ [][NextCtl]_vars
\* the control connection with the send calls of its OpConns
SpecSend == Init /\ [][NextSend]_vars

\* one command session
SpecWS == Init /\ [][NextWS]_vars

(***************************************************************************)
(* Claims about the pool (checked under SpecPool).                         *)
(***************************************************************************)
Holding(c) == pc[c] = "holding"

\* C1: with maxSize = N and any number of concurrently pending acquire()
\* calls, calls suspended inside connect() included, the roster size
\* (conns.length) never exceeds N.
C1_RosterWithinMaxSize == Len(conns) <= MaxSize

\* C2: a connection is held by at most one caller at a time: between the
\* moment acquire() (idle reuse, new connection or waiter handoff) gives it to
\* a caller and that caller's release(), no other caller is given it, and it
\* stays marked active.
C2_ExclusiveHolder ==
    /\ \A c1, c2 \in Callers :
          (c1 # c2 /\ Holding(c1) /\ Holding(c2)) => held[c1] # held[c2]
    /\ \A c \in Callers : Holding(c) => held[c] \in ccActive

\* two callers hold connections at once, one of them obtained by idle reuse
\* or by a handoff
C2_Witness ==
    \E c1, c2 \in Callers :
        /\ c1 # c2 /\ Holding(c1) /\ Holding(c2)
        /\ how[c1] \in {"reuse", "handoff"}

\* C3: release(conn) with waiters queued hands conn, still marked active, to
\* the waiter queued longest; a waiter is resolved only from the head of the
\* queue and the queue otherwise only grows at its tail, so k queued waiters
\* are resolved by k releases in their enqueue order.
C3_FifoHandoff ==
    [][ /\ \A c \in Callers :
             (Holding(c) /\ pc'[c] = "idle" /\ waiters # <<>>) =>
                 /\ pc'[Head(waiters)] = "holding"
                 /\ held'[Head(waiters)] = held[c]
                 /\ held[c] \in ccActive'
                 /\ waiters' = Tail(waiters)
        /\ \A w \in Callers :
             (pc[w] = "waiting" /\ pc'[w] = "holding") => w = Head(waiters)
        /\ \/ waiters' = waiters
           \/ waiters # <<>> /\ waiters' = Tail(waiters)
           \/ waiters' = <<>>
           \/ \E c \in Callers : waiters' = Append(waiters, c)
      ]_vars

\* a release() that found three waiters queued has handed its connection over
C3_Witness ==
    /\ queuedAtRelease >= 3
    /\ \E w \in Callers : Holding(w) /\ how[w] = "handoff"

(***************************************************************************)
(* Claims about the control connection and its OpConns (SpecCtl).          *)
(***************************************************************************)
StartOpCalled == \E t \in BOOLEAN : StartOp(t)

LiveOps == {i \in OpIds : ~ops[i].closed}

\* an operation is in flight: the connection is open and marked busy, which
\* is the case whenever an OpConn that is not closed is attached to it
InFlight == opActive /\ ~closed

\* C4: startOp on a connection that already has an operation in flight always
\* fails with 'Operation already in progress': it sends no op.start, creates
\* no OpConn, leaves the operation in flight untouched and queues nothing.
C4_BusyStartOpConflicts ==
    [][ /\ (opConn # NoOp /\ ~ops[opConn].closed) => InFlight
        /\ (InFlight /\ StartOpCalled) =>
              /\ startOpResult' = "errConflict"
              /\ UNCHANGED <<ops, opConn, opActive, startsSent, wsReady, closed>>
      ]_vars

\* a startOp call was refused as a conflict while an operation is live
C4_Witness ==
    /\ startOpResult = "errConflict"
    /\ opActive /\ ~closed
    /\ opConn # NoOp /\ ~ops[opConn].closed

\* C5: at any instant at most one OpConn created by the connection is live
\* (not yet closed), over any sequence of startOp, op.complete, op.error,
\* pool release (clearOpConn) and transport close.
C5_AtMostOneLiveOpConn == Cardinality(LiveOps) <= 1

\* C9: every exit code a resolved wait() yields is >= 0; wait() never
\* resolves with the 'not yet known' sentinel -1.
C9_ResolvedWaitNonNegative ==
    \A i \in OpIds : ops[i].wait = "resolved" => ops[i].waitValue >= 0

\* C10: when an op.error envelope with args.error = m arrives while an OpConn
\* is active, a wait() pending on that OpConn rejects with an error whose
\* message is m; it does not resolve with an exit code.
C10_OpErrorRejectsWait ==
    [][ \A e \in ErrMsgs :
            ( /\ opConn # NoOp
              /\ ops[opConn].wait = "pending"
              /\ RecvControl("op.error", Absent, e) ) =>
                /\ ops'[opConn].wait = "rejected"
                /\ ops'[opConn].waitError = e
      ]_vars

(***************************************************************************)
(* Claims about the command session (SpecWS).                              *)
(***************************************************************************)
\* the session was constructed non-TTY and no session_info switched it
NonTtySession == sReady # "UNBUILT" /\ ~initTty /\ ~sTty

EventsOf(evs, kinds) == {k \in DOMAIN evs : evs[k].ev \in kinds}

IsExitFrame(m) == m.kind = "bin" /\ ~m.len0 /\ m.id = StreamExit

ExitFrameCode(m) == IF m.payload.has THEN m.payload.v ELSE 0

\* C6: in a non-TTY session an Exit frame sets the exit code to the first
\* payload byte (0 for an empty payload) and closes the transport; the first
\* one emits one exit event carrying that code, and the session never emits a
\* second exit event, neither on the transport close that follows nor on a
\* repeated Exit frame.
C6_ExitFrameOnce ==
    [][ (NonTtySession /\ ~sTty') =>
            /\ \A m \in Msgs :
                 (IsExitFrame(m) /\ WsMessage(m)) =>
                     /\ exitCode' = ExitFrameCode(m)
                     /\ sReady' # "OPEN"
                     /\ done'
                     /\ EventsOf(events, {"exit"}) = {} =>
                            events' = Emit(events, "exit", ExitFrameCode(m))
            /\ Cardinality(EventsOf(events', {"exit"})) <= 1
      ]_vars

\* a non-TTY session got Exit(42), then a second Exit frame with an empty
\* payload, then the transport closed: one exit event, carrying 42
C6_Witness ==
    /\ NonTtySession
    /\ sReady = "CLOSED"
    /\ exitCode = 0
    /\ \E k \in DOMAIN events : events[k] = [ev |-> "exit", v |-> 42]
    /\ Cardinality(EventsOf(events, {"exit"})) = 1

\* C7: in a non-TTY session that has received no Exit frame, no step other
\* than the arrival of an Exit frame emits an exit event; the step in which
\* the transport closes, whatever the close code, leaves the session done
\* with an error event emitted, and no event follows the close.
C7_CloseWithoutExitIsError ==
    [][ (NonTtySession /\ ~sTty' /\ exitCode = NotExited) =>
            /\ (~ \E m \in Msgs : IsExitFrame(m) /\ WsMessage(m)) =>
                   EventsOf(events', {"exit"}) = {}
            /\ (sReady # "CLOSED" /\ sReady' = "CLOSED") =>
                   /\ done'
                   /\ EventsOf(events', {"error"}) # {}
            /\ sReady = "CLOSED" => events' = events
      ]_vars

\* a connected non-TTY session closed without an Exit frame, after output
C7_Witness ==
    /\ NonTtySession
    /\ sReady = "CLOSED"
    /\ exitCode = NotExited
    /\ startState = "resolved"
    /\ EventsOf(events, {"stdout"}) # {}
    /\ EventsOf(events, {"error"}) # {}

\* C8: once the session is done, no further stdout, stderr or message event
\* is emitted for frames that arrive afterwards.
C8_NoEventsAfterDone ==
    [][ done =>
            \A k \in DOMAIN events' :
                k > Len(events) => events'[k].ev \notin {"stdout", "stderr", "message"}
      ]_vars

(***************************************************************************)
(* Further claims about the control connection (SpecCtl).                  *)
(***************************************************************************)
\* C11: processing an op.error envelope for the active OpConn leaves the
\* connection open (closed stays false) and no longer busy, so that a
\* startOp made next on the same connection succeeds.
C11_OpErrorFreesConnection ==
    [][ \A e \in ErrMsgs :
            ( /\ opConn # NoOp
              /\ ~closed
              /\ wsReady = "OPEN"
              /\ RecvControl("op.error", Absent, e) ) =>
                /\ ~closed'
                /\ ~opActive'
                /\ opConn' = NoOp
                /\ StartOpOutcome(closed', opActive', wsReady') = "ok"
      ]_vars

\* an Exit frame reaches a non-TTY OpConn
IsOpExitFrame(f) == ~f.len0 /\ f.id = StreamExit

\* C18: on a non-TTY OpConn an Exit frame records the exit code and nothing
\* else: the OpConn stays not closed, its connection stays busy and a
\* pending wait() stays pending; no data frame closes an OpConn or settles a
\* wait(), which happens only in the step that closes the OpConn.
C18_ExitFrameDoesNotComplete ==
    [][ /\ \A f \in Frames :
             RecvData(f) =>
                 /\ \A i \in OpIds : /\ ops'[i].closed = ops[i].closed
                                     /\ ops'[i].wait = ops[i].wait
                 /\ opActive' = opActive
                 /\ opConn' = opConn
                 /\ (opConn # NoOp /\ ~ops[opConn].tty /\ IsOpExitFrame(f)) =>
                        ops'[opConn].exitCode =
                            (IF f.payload.has THEN f.payload.v ELSE 0)
        /\ \A i \in OpIds :
             (ops[i].wait = "pending" /\ ops'[i].wait # "pending") =>
                 (~ops[i].closed /\ ops'[i].closed)
      ]_vars

\* a non-TTY OpConn has recorded exit code 42 from an Exit frame and is still
\* open, current and busy, with its wait() pending
C18_Witness ==
    /\ opConn # NoOp
    /\ ~ops[opConn].tty
    /\ ops[opConn].exitCode = 42
    /\ ~ops[opConn].closed
    /\ ops[opConn].wait = "pending"
    /\ opActive /\ ~closed

\* C19: when op.complete with args.exitCode = c arrives for the current
\* OpConn (not closed), a pending wait() resolves with c and a wait() called
\* afterwards resolves with c; the connection's current operation is cleared
\* and, the connection being open, a startOp made next succeeds.
C19_OpCompleteResolvesWait ==
    [][ \A c \in ExitCodes :
            ( /\ opConn # NoOp
              /\ ~ops[opConn].closed
              /\ RecvControl("op.complete", Some(c), "-") ) =>
                /\ ops'[opConn].closed
                /\ ops'[opConn].exitCode = c
                /\ ops[opConn].wait = "pending" =>
                       /\ ops'[opConn].wait = "resolved"
                       /\ ops'[opConn].waitValue = c
                /\ ops[opConn].wait = "none" =>
                       /\ OpWaitRec(ops'[opConn]).wait = "resolved"
                       /\ OpWaitRec(ops'[opConn]).waitValue = c
                /\ opConn' = NoOp
                /\ ~opActive'
                /\ (~closed /\ wsReady = "OPEN") =>
                       StartOpOutcome(closed', opActive', wsReady') = "ok"
      ]_vars

\* the wait() of the first OpConn resolved with 42 from op.complete, and a
\* second startOp on the same connection succeeded
C19_Witness ==
    /\ Len(ops) >= 2
    /\ ops[1].wait = "resolved"
    /\ ops[1].waitValue = 42
    /\ ops[1].closed
    /\ opConn = 2
    /\ startOpResult = "ok"

(***************************************************************************)
(* Further claims about the pool (SpecPool).                               *)
(***************************************************************************)
\* the roster positions that hold a connection whose transport has closed
ClosedInRoster(roster, closedSet) == {i \in DOMAIN roster : roster[i] \in closedSet}

\* C12: a connection that has become closed does not stay in the roster:
\* every acquire() and release() call leaves the roster without closed
\* connections, so none of them counts toward maxSize.
C12_ClosedLeavesRoster ==
    [][ (\E c \in Callers : Acquire(c) \/ Release(c)) =>
            ClosedInRoster(conns', ccClosed') = {}
      ]_vars

\* C20: close() rejects every queued waiter with 'Pool is closed', closes
\* every connection of the roster and leaves the roster and the waiter queue
\* empty; an acquire() called on the closed pool fails at once with 'Pool is
\* closed', constructs no connection and queues no waiter.
C20_PoolCloseRejectsAndEmpties ==
    [][ /\ PoolClose =>
              /\ \A w \in Callers :
                    pc[w] = "waiting" => pc'[w] = "errPoolClosed"
              /\ \A i \in DOMAIN conns : conns[i] \in ccClosed'
              /\ conns' = <<>>
        /\ poolClosed' => waiters' = <<>>
        /\ \A c \in Callers :
              (poolClosed /\ Acquire(c)) =>
                  /\ pc'[c] = "errPoolClosed"
                  /\ UNCHANGED <<conns, waiters, nextConn, held>>
      ]_vars

\* close() rejected two queued waiters and closed the connection the third
\* caller holds; an acquire() made afterwards failed with 'Pool is closed'
C20_Witness ==
    /\ poolClosed
    /\ conns = <<>> /\ waiters = <<>>
    /\ Cardinality({c \in Callers : pc[c] = "errPoolClosed" /\ how[c] = "rejected"}) = 2
    /\ \E c \in Callers : pc[c] = "errPoolClosed" /\ how[c] = "none"
    /\ \E c \in Callers : Holding(c) /\ held[c] \in ccClosed

(***************************************************************************)
(* Further claims about the command session (SpecWS).                      *)
(***************************************************************************)
\* C13: in an attach session, a binary message received while start() waits
\* for session_info is discarded: it causes no event and changes neither the
\* exit code nor the done flag.
C13_BinaryDiscardedDuringInfoWait ==
    [][ \A m \in BinMsgs :
            (isAttach /\ infoWait = "waiting" /\ WsMessage(m)) =>
                /\ events' = events
                /\ exitCode' = exitCode
                /\ done' = done
      ]_vars

IsSessionInfo(m) == m.kind = "json" /\ m.type = "session_info"

C15_PostConnectErrorSurfaces ==
    [][ \A code \in CloseCodes :
            ( /\ sCloseError
              /\ ~done
              /\ exitCode = NotExited
              /\ WsCloseEvent(code) ) =>
                /\ done'
                /\ EventsOf(events', {"error"}) # {}
      ]_vars

IsOutputFrame(m) ==
    m.kind = "bin" /\ ~m.len0 /\ m.id \in {StreamStdout, StreamStderr}

OutputEvent(m) ==
    [ev |-> IF m.id = StreamStdout THEN "stdout" ELSE "stderr", v |-> m.payload.v]

\* C16: in a non-TTY session each stdout/stderr frame is emitted when it
\* arrives, behind everything emitted before it, so that frames followed by
\* an Exit frame are observed in arrival order with the exit event after
\* them; once the Exit frame has been received no error event and no
\* further exit event is emitted, whatever transport error or close follows.
C16_ExitWinsOverLateError ==
    [][ (NonTtySession /\ ~sTty') =>
            /\ \A m \in Msgs :
                 (IsOutputFrame(m) /\ WsMessage(m)) =>
                     events' = Append(events, OutputEvent(m))
            /\ \A m \in Msgs :
                 (IsExitFrame(m) /\ ~done /\ WsMessage(m)) =>
                     events' = Emit(events, "exit", ExitFrameCode(m))
            /\ (done /\ exitCode # NotExited) =>
                     /\ EventsOf(events', {"error"}) = EventsOf(events, {"error"})
                     /\ EventsOf(events', {"exit"}) = EventsOf(events, {"exit"})
      ]_vars

\* a non-TTY session emitted stdout, then exit 42, and then its transport
\* reported an error: no error event
C16_Witness ==
    /\ NonTtySession
    /\ sReady = "FAILED"
    /\ done
    /\ events = <<[ev |-> "stdout", v |-> 7], [ev |-> "exit", v |-> 42]>>
    /\ msgs = 2

\* the session was constructed as TTY and is in TTY mode
TtySession == sReady # "UNBUILT" /\ initTty /\ sTty

\* the exit code a TTY session derives from a close code (277)
SynthesizedExit(code) == IF code = CleanClose THEN 0 ELSE 1

IsExitNotification(m) == m.kind = "json" /\ m.type = "exit"

\* C17: in a TTY session whose transport closes before any exit
\* notification, the close emits exit with code 0 for close code 1000 and 1
\* for any other close code; an exit notification with exit_code c that
\* arrives first emits exit with c, and the close that follows changes
\* neither the code nor the events; at most one exit event is ever emitted.
C17_TtyCloseCode ==
    [][ (TtySession /\ sTty') =>
            /\ \A code \in CloseCodes :
                 (~done /\ exitCode = NotExited /\ WsCloseEvent(code)) =>
                     /\ done'
                     /\ exitCode' = SynthesizedExit(code)
                     /\ events' = Emit(events, "exit", SynthesizedExit(code))
            /\ \A m \in Msgs :
                 (~done /\ IsExitNotification(m) /\ WsMessage(m)) =>
                     /\ done'
                     /\ exitCode' = m.code
                     /\ Len(events') > Len(events)
                     /\ events'[Len(events) + 1] = [ev |-> "exit", v |-> m.code]
            /\ (done /\ \E code \in CloseCodes : WsCloseEvent(code)) =>
                     /\ exitCode' = exitCode
                     /\ events' = events
            /\ Cardinality(EventsOf(events', {"exit"})) <= 1
      ]_vars

\* a TTY session that got no exit notification closed with code 1006
C17_Witness ==
    /\ TtySession
    /\ sReady = "CLOSED"
    /\ exitCode = 1
    /\ events = <<[ev |-> "exit", v |-> 1]>>

(***************************************************************************)
(* Claims about the pool's waiters, drain and shutdown (SpecPool, and      *)
(* SpecPoolLive where callers release what they hold).                     *)
(***************************************************************************)
\* C21: a queued acquire() stays pending until a release() hands it a
\* connection or close() rejects it, nothing else settles it; and when every
\* held connection is eventually released, every queued waiter is eventually
\* handed a connection (or the pool is closed).
C21_WaitersEventuallyResolved ==
    /\ [][ \A w \in Callers :
              (pc[w] = "waiting" /\ pc'[w] # "waiting") =>
                  \/ /\ \E c \in Callers : Release(c)
                     /\ pc'[w] = "holding" /\ how'[w] = "handoff"
                  \/ /\ PoolClose
                     /\ pc'[w] = "errPoolClosed" /\ how'[w] = "rejected"
          ]_vars
    /\ \A w \in Callers : (pc[w] = "waiting") ~> (Holding(w) \/ poolClosed)

\* the first half of C21 alone: only release() and close() settle a waiter
C21_OnlyReleaseOrCloseSettles ==
    [][ \A w \in Callers :
          (pc[w] = "waiting" /\ pc'[w] # "waiting") =>
              \/ /\ \E c \in Callers : Release(c)
                 /\ pc'[w] = "holding" /\ how'[w] = "handoff"
              \/ /\ PoolClose
                 /\ pc'[w] = "errPoolClosed" /\ how'[w] = "rejected"
      ]_vars

\* the connections of a roster, as a set
InRoster(roster) == {roster[i] : i \in DOMAIN roster}

\* C22: a release() that finds no waiters and a roster above the drain
\* threshold (20) closes and removes only connections that are idle (neither
\* active nor closed once the released one is idle), keeps the order of the
\* others, and stops when the roster is down to the drain target (10) or no
\* idle connection is left: no active connection is closed and the roster
\* never falls below 10.  From a roster of 25 idle connections it leaves 10.
C22_DrainToTarget ==
    [][ \A c \in Callers :
          (Release(c) /\ waiters = <<>> /\ Len(conns) > POOL_DRAIN_THRESHOLD) =>
             LET removed == InRoster(conns) \ InRoster(conns')
                 active == ccActive \ {held[c]}
             IN /\ InRoster(conns') \subseteq InRoster(conns)
                /\ conns' = SelectSeq(conns, LAMBDA x : x \notin removed)
                /\ \A x \in removed : x \notin active /\ x \notin ccClosed
                /\ ccClosed' = ccClosed \cup removed
                /\ ccActive' = active
                /\ Len(conns') >= POOL_DRAIN_TARGET
                /\ \/ Len(conns') = POOL_DRAIN_TARGET
                   \/ IdleIdx(conns', ccClosed', ccActive') = {}
                /\ ( /\ Len(conns) = 25
                     /\ InRoster(conns) \cap (active \cup ccClosed) = {} )
                      => Len(conns') = POOL_DRAIN_TARGET
      ]_vars

\* one release() took a roster of 25 idle connections down to 10
C22_Witness ==
    /\ nextConn = 25
    /\ Len(conns) = POOL_DRAIN_TARGET
    /\ Cardinality(ccClosed) = 15
    /\ ccActive = {}
    /\ queuedAtRelease = 0
    /\ \A c \in Callers : pc[c] = "idle"

(***************************************************************************)
(* Claims about the session's keepalive and attach handshake (SpecWS).     *)
(***************************************************************************)
\* the time since lastPongTime at the keepalive tick that follows n earlier ones
SilenceAtTick(n) == (n + 1) * WS_PING_INTERVAL

\* C23: at a keepalive tick on an open transport the session emits the
\* keepalive-timeout error, stops its keepalive and closes the transport if
\* and only if the time since the last inbound message (since the keepalive
\* started if there was none) exceeds WS_PONG_WAIT; otherwise the tick changes
\* nothing.  Every inbound message, and the start of the keepalive, sets the
\* elapsed time back to zero, and only a tick lets it grow.
C23_KeepaliveTimeout ==
    [][ /\ (WsKeepaliveTick /\ sReady = "OPEN") =>
              LET timedOut == /\ events' = Emit(events, "error", 0)
                              /\ sReady' = "CLOSING"
                              /\ ~pingOn'
                  quiet == /\ events' = events
                           /\ sReady' = "OPEN"
                           /\ pingOn'
              IN /\ timedOut <=> SilenceAtTick(ticks) > WS_PONG_WAIT
                 /\ quiet <=> SilenceAtTick(ticks) <= WS_PONG_WAIT
        /\ (\E m \in Msgs : WsMessage(m)) => ticks' = 0
        /\ (~pingOn /\ pingOn') => ticks' = 0
        /\ ticks' > ticks => WsKeepaliveTick
      ]_vars

\* a message reset the clock, then four silent intervals went by: the fourth
\* tick raised the error and closed the transport
C23_Witness ==
    /\ msgs >= 1
    /\ SilenceAtTick(ticks - 1) > WS_PONG_WAIT
    /\ sReady = "CLOSING"
    /\ ~pingOn
    /\ ~done
    /\ events # <<>>
    /\ events[Len(events)].ev = "error"

\* the handshake timer of an attach session has fired
HandshakeTimedOut == isAttach /\ infoWait \in {"timedOut", "timedOutGotInfo"}

\* C24: in an attach session, when the handshake timer fires before any
\* session_info message arrived, a start() that is still pending rejects with
\* the timeout error; from then on start() is rejected and stays so, with the
\* same error, whatever arrives later, a session_info message included.
C24_HandshakeTimeoutRejects ==
    [][ /\ (isAttach /\ infoWait = "waiting" /\ infoWait' = "timedOut"
                /\ startState = "pending") =>
              /\ startState' = "rejected"
              /\ startError' = TimeoutError
        /\ HandshakeTimedOut' => startState' = "rejected"
        /\ HandshakeTimedOut =>
              /\ startError' = startError
              /\ ~resolved'
              /\ ~pingOn'
      ]_vars

\* the timer fired, start() rejected with the timeout error, and a
\* session_info message arrived afterwards
C24_Witness ==
    /\ isAttach
    /\ infoWait = "timedOutGotInfo"
    /\ startState = "rejected"
    /\ startError = TimeoutError
    /\ EventsOf(events, {"message"}) # {}

(***************************************************************************)
(* Claims about message routing on the control connection (SpecCtl).       *)
(***************************************************************************)
\* the fields of the connection and of its OpConns
ConnState == <<wsReady, opActive, opConn, closed, ops, startsSent, startOpResult>>

\* C25: a text message that starts with the control prefix is handed to no
\* OpConn as data; any other message, text or binary, is handed to the
\* current OpConn and changes no other OpConn; and when no OpConn is current
\* such a message is dropped: it is handed to none and changes nothing.
\* (each part is written as "a step that breaks the rule is no such message")
C25_ControlPrefixRouting ==
    [][ LET toCurrentOnly ==
                /\ dataTo' = opConn
                /\ \A i \in OpIds : i # opConn => ops'[i] = ops[i]
                /\ opConn = NoOp => UNCHANGED ConnState
        IN /\ dataTo' # NoOp =>
                 ~ \E m \in ControlMsgs : RecvControl(m.type, m.code, m.err)
           /\ ~toCurrentOnly =>
                 ~ ((\E f \in Frames : RecvData(f)) \/ RecvText)
      ]_vars

\* the second OpConn is current and took an Exit frame as data; the first,
\* released earlier, never saw one
C25_Witness ==
    /\ Len(ops) = 2
    /\ opConn = 2 /\ dataTo = 2
    /\ ops[2].exitCode = 42 /\ ~ops[2].closed
    /\ ops[1].exitCode = NotExited /\ ~ops[1].closed

C27_FrameRoundTrip ==
    [][ /\ (wire' # <<>> /\ RecvFrame(wire')) =>
              /\ decoded' = "frame"
              /\ streamId' \in StreamIds
              /\ wire' = <<streamId'>> \o payload'
        /\ \A data \in Payloads :
             Write(data) =>
                 Decode(wire') = [streamId |-> StreamStdin, payload |-> data]
        /\ SendEOF =>
              Decode(wire') = [streamId |-> StreamStdinEOF, payload |-> <<>>]
      ]_vars

\* a frame that is only the Exit tag was received: handleData took it as
\* the Exit tag with the empty payload
C27_Witness ==
    /\ decoded = "frame"
    /\ wire = <<StreamExit>>
    /\ streamId = StreamExit
    /\ payload = <<>>

GivenConn(c) == pc[c] # "holding" /\ pc'[c] = "holding"

\* C29: once close() has returned, the roster is empty after every later
\* step and no caller is given a connection, an acquire() that was suspended
\* in connect() when close() ran included.
C29_ClosedPoolGivesNothing ==
    [][ poolClosed =>
          /\ conns' = <<>>
          /\ \A c \in Callers : ~GivenConn(c)
      ]_vars

\* C30: every connection the pool gives to a caller, by idle reuse, as a new
\* connection or by a handoff from release(), is not closed at that moment.
C30_HandedOverOpen ==
    [][ \A c \in Callers : GivenConn(c) => held'[c] \notin ccClosed' ]_vars

(***************************************************************************)
(* Claims about queued waiters and failed connects (SpecPool).             *)
(***************************************************************************)
\* the roster connections a caller holds
HeldInRoster ==
    {conns[i] : i \in DOMAIN conns} \cap
    {held[c] : c \in {x \in Callers : Holding(x)}} \cap ccActive

\* C31: in an open pool a waiter is never queued while no roster connection
\* is held by a caller: somebody can still release a connection to it.
C31_WaiterHasHolder ==
    (~poolClosed /\ waiters # <<>>) => HeldInRoster # {}

\* C37: whenever a waiter is queued, the roster holds at least maxSize
\* connections and none of them is both open and not active.
C37_NoIdleWithWaiter ==
    waiters # <<>> =>
        /\ Len(conns) >= MaxSize
        /\ AvailableIdx(conns, ccClosed, ccActive) = {}

\* two waiters are queued behind a holder that got its connection by a
\* handoff, next to a roster connection whose transport has closed
C37_Witness ==
    /\ Len(waiters) >= 2
    /\ \E c \in Callers : Holding(c) /\ how[c] = "handoff"
    /\ \E i \in DOMAIN conns : conns[i] \in ccClosed

\* C38: when connect() rejects inside acquire(), acquire() rejects with that
\* error, and the roster, the waiter queue and the active flag of every
\* connection are what they were.
C38_ConnectFailureFrame ==
    [][ \A c \in Callers :
          (pc[c] = "connecting" /\ pc'[c] # "connecting" /\ held'[c] = NoConn) =>
              /\ pc'[c] = "errConnect"
              /\ UNCHANGED <<conns, waiters, ccActive, ccClosed, poolClosed>>
      ]_vars

\* a connect() failed while a connection was in the roster and held, and a
\* waiter was queued
C38_Witness ==
    /\ \E c \in Callers : pc[c] = "errConnect"
    /\ conns # <<>>
    /\ waiters # <<>>
    /\ \E c \in Callers : Holding(c)

(***************************************************************************)
(* Claims about a connection on its way back through the pool (SpecCtl).   *)
(***************************************************************************)
\* C32: a connection goes back to the pool, and from there to its next
\* holder (at once when a waiter is queued), with no operation in flight:
\* release() leaves opActive false, and a startOp on a connection that
\* has no current OpConn never fails with 'Operation already in progress'.
C32_HandedOverWithoutOperation ==
    [][ /\ ClearOpConn => ~opActive'
        /\ (opConn = NoOp /\ StartOpCalled) => startOpResult' # "errConflict"
      ]_vars

(***************************************************************************)
(* Claims about the end of a command session (SpecWS).                     *)
(***************************************************************************)
\* the terminal events the session has emitted so far
TerminalEvents == {i \in DOMAIN events : events[i].ev \in {"exit", "error"}}

\* C33: a session emits at most one terminal event over its lifetime: one
\* exit or one error, never both and never two of a kind.
C33_AtMostOneTerminalEvent == Cardinality(TerminalEvents) <= 1

\* C34: once the transport of a session has closed, no wait() is pending:
\* every wait() called before the close has been settled.
C34_NoWaitPendingAfterClose == sReady = "CLOSED" => waitState # "pending"

(***************************************************************************)
(* Claims about the end of an operation (SpecCtl).                         *)
(***************************************************************************)
\* C36: an OpConn emits 'close' at most once, and its wait() resolves
\* exactly once with a single value: it resolves in the step that emits
\* 'close' (or at the call, when the OpConn is closed already) and keeps its
\* state and its value ever after.
C36_CloseAndWaitOnce ==
    [][ \A i \in OpIds :
          /\ ops'[i].closes <= 1
          /\ ops[i].wait = "resolved" =>
                /\ ops'[i].wait = "resolved"
                /\ ops'[i].waitValue = ops[i].waitValue
          /\ (ops[i].wait = "pending" /\ ops'[i].wait # "pending") =>
                /\ ops'[i].wait = "resolved"
                /\ ops'[i].closes = ops[i].closes + 1
      ]_vars

\* the transport closed under a current OpConn that had recorded exit code
\* 42 and had a wait() pending: one 'close', the wait resolved with 42
C36_Witness ==
    /\ closed
    /\ wsReady = "CLOSED"
    /\ opConn # NoOp
    /\ ops[opConn].closed
    /\ ops[opConn].closes = 1
    /\ ops[opConn].wait = "resolved"
    /\ ops[opConn].waitValue = 42

\* C40: when a non-TTY OpConn has recorded the code of an Exit frame and
\* op.complete arrives without an exitCode argument, the pending wait()
\* resolves with the recorded code.
C40_ExitFrameCodeKept ==
    [][ \A i \in OpIds :
          ( /\ i = opConn
            /\ ~ops[i].tty /\ ~ops[i].closed
            /\ ops[i].exitCode # NotExited
            /\ ops[i].wait = "pending"
            /\ RecvControl("op.complete", Absent, "-") ) =>
              /\ ops'[i].wait = "resolved"
              /\ ops'[i].waitValue = ops[i].exitCode
      ]_vars

(***************************************************************************)
(* Claims about what an OpConn sends (SpecSend).                           *)
(***************************************************************************)
\* a send call on OpConn i
SendCall(i) == OpWrite(i) \/ OpSendEOF(i) \/ OpResize(i) \/ OpSignal(i)

\* C35: write(), sendEOF(), resize() and signal() called on a closed OpConn
\* put nothing on the transport of its connection.
C35_ClosedOpConnSendsNothing ==
    [][ \A i \in OpIds :
          (ops[i].closed /\ SendCall(i)) => sent' = NoSend
      ]_vars

(***************************************************************************)
(* Claims about execFileViaControl and its connection (SpecExec).          *)
(***************************************************************************)
\* C39: a call that got a connection has released it exactly once when it
\* returns, whatever settled it; it never releases twice; a call whose
\* acquire failed releases nothing.
C39_ReleaseExactlyOnce ==
    /\ released <= 1
    /\ execPos = "returned" => released = 1
    /\ execPos = "returnedNoConn" => released = 0
    /\ released = 1 => execPos = "returned"

\* a call over a control connection overran maxBuffer on stdout, sent KILL,
\* was rejected and has returned: the connection was released once; the
\* exit of the killed command, if it came, released nothing more
C39_Witness ==
    /\ execVia = "control"
    /\ execPos = "returned"
    /\ killed
    /\ execPromise = "rejected"
    /\ execValue = PlainError
    /\ ConcatLength(stdoutChunks) > MaxBuffer
    /\ released = 1

====
